---- MODULE Spec2Model ----
(***************************************************************************)
(* Model of the streaming tokenizer (src/src/lexer.rs) and of the tree     *)
(* container (src/src/ast.rs).                                             *)
(*                                                                         *)
(* Text is a sequence of one-character strings.  A line handed out by the  *)
(* buffered reader is the text up to and including its "\n"; only the last *)
(* line of a source may lack the "\n".                                     *)
(***************************************************************************)
EXTENDS Integers, Sequences, FiniteSets, TLC

VARIABLES
  source,        \* the items the reader was constructed over (never changes)
  reader,        \* BufReader<R>: the items not yet handed out
  has_more,      \* Lexer.has_more
  token_queue,   \* Lexer.token_queue
  line_number,   \* Lexer.line_number
  ret,           \* the result of the last read()/peek(i) call
  consumed,      \* history: the tokens returned by read(), in order
  appended,      \* history: every token ever pushed to token_queue, in order
  pulls,         \* history: reader.read_line calls made by the last call
  tree,          \* an ASTree value
  ast_ret,       \* the result of the last ASTree call
  aborted,       \* the process has panicked
  iter,          \* the ASTreeIter last returned by children()
  yielded        \* history: the items that iterator has yielded, in order

vars == <<source, reader, has_more, token_queue, line_number, ret, consumed,
          appended, pulls, tree, ast_ret, aborted, iter, yielded>>

lexer_vars == <<source, reader, has_more, token_queue, line_number, ret,
                consumed, appended, pulls>>

ast_vars == <<tree, ast_ret, aborted, iter, yielded>>

iter_vars == <<iter, yielded>>

-----------------------------------------------------------------------------
(* Bounds of the model *)

MaxLines == 2

MaxPeek == 2

MaxChildren == 3

\* calls of children() on one tree
MaxTraversals == 2

\* calls of next() on an iterator that has reported its end
MaxNextAfterEnd == 2

\* the longest line of the sources that hold every line over ScanChars
MaxLineLen == 3

-----------------------------------------------------------------------------
(* Constants of the program *)

\* i32::MAX, the largest value parse::<i32> returns
I32Max == 2147483647

EOF_ERR_STR == "Already reach EOF!"

POP_ERR_STR == ""

NOT_NUMBER_ERR_STR == "It's not a number token!"

OUT_OF_BOUNDS_STR == "Out of bounds!"

PARSE_ERR_STR == "number too large to fit in target type"

\* stands for err.to_string() of the reader's std::io::Error
IO_ERR_STR == "io error"

-----------------------------------------------------------------------------
(* Character classes of TOKEN_REG_STR *)

DigitChars == <<"0", "1", "2", "3", "4", "5", "6", "7", "8", "9">>

Digit == {DigitChars[k] : k \in 1..10}

IdStart == {"A", "B", "C", "D", "E", "F", "G", "H", "I", "J", "K", "L", "M",
            "N", "O", "P", "Q", "R", "S", "T", "U", "V", "W", "X", "Y", "Z",
            "_",
            "a", "b", "c", "d", "e", "f", "g", "h", "i", "j", "k", "l", "m",
            "n", "o", "p", "q", "r", "s", "t", "u", "v", "w", "x", "y", "z"}

IdPart == IdStart \cup Digit

Space == {" ", "\t", "\n", "\r", "\f"}

\* [[:punct:]]; the grave accent is outside the model's alphabet
Punct == {"!", "\"", "#", "$", "%", "&", "'", "(", ")", "*", "+", ",", "-",
          ".", "/", ":", ";", "<", "=", ">", "?", "@", "[", "\\", "]", "^",
          "_", "{", "|", "}", "~"}

TwoCharOps == {<<"=", "=">>, <<"<", "=">>, <<">", "=">>, <<"&", "&">>,
               <<"|", "|">>}

-----------------------------------------------------------------------------
(* Token model *)

\* One record shape for the five token structs: `text` is IdToken.id or
\* StringToken.literal, `number` is NumberToken.number.
IdToken_new(line, id) ==
  [category |-> "IDENTIFIER", line_number |-> line, text |-> id, number |-> 0]

NumberToken_new(line, number) ==
  [category |-> "NUMBER", line_number |-> line, text |-> <<>>, number |-> number]

\* literal: String::from(&text[1..text.len() - 1])
StringToken_new(line, text) ==
  [category |-> "STRING", line_number |-> line,
   text |-> SubSeq(text, 2, Len(text) - 1), number |-> 0]

EolToken_new(line) ==
  [category |-> "EOL", line_number |-> line, text |-> <<>>, number |-> 0]

EofToken_new(line) ==
  [category |-> "EOF", line_number |-> line, text |-> <<>>, number |-> 0]

NoToken == [category |-> "NONE", line_number |-> 0, text |-> <<>>, number |-> 0]

DigitVal(c) == (CHOOSE k \in 1..10 : DigitChars[k] = c) - 1

\* i32::to_string of a non-negative value
RECURSIVE to_string(_)
to_string(n) ==
  IF n < 10 THEN <<DigitChars[n + 1]>>
  ELSE Append(to_string(n \div 10), DigitChars[(n % 10) + 1])

get_category(t) == t.category

get_text(t) ==
  CASE t.category = "IDENTIFIER" -> t.text
    [] t.category = "NUMBER" -> to_string(t.number)
    [] t.category = "STRING" -> t.text
    [] OTHER -> <<>>

\* get_number handing out the number field of any token
get_number_of_any(t) == [ok |-> TRUE, value |-> t.number, err |-> ""]

get_number(t) ==
  IF t.category = "NUMBER" THEN [ok |-> TRUE, value |-> t.number, err |-> ""]
  ELSE [ok |-> FALSE, value |-> 0, err |-> NOT_NUMBER_ERR_STR]

get_line_number(t) == t.line_number

\* str::parse::<i32> of a run of decimal digits: checked multiply and add
RECURSIVE parse_i32_from(_, _, _)
parse_i32_from(s, k, acc) ==
  IF k > Len(s) THEN [ok |-> TRUE, value |-> acc]
  ELSE LET d == DigitVal(s[k]) IN
       IF acc > (I32Max - d) \div 10 THEN [ok |-> FALSE, value |-> 0]
       ELSE parse_i32_from(s, k + 1, acc * 10 + d)

parse_i32(s) == parse_i32_from(s, 1, 0)

-----------------------------------------------------------------------------
(* One match of TOKEN_REG_STR at position p of a line *)

At(line, k) == IF k >= 1 /\ k <= Len(line) THEN line[k] ELSE "END"

\* \s* : the first position at or after p that holds no white space
RECURSIVE SkipSpace(_, _)
SkipSpace(line, p) ==
  IF At(line, p) \in Space THEN SkipSpace(line, p + 1) ELSE p

\* .* : up to, not including, the line terminator
RECURSIVE RunEndNoNewline(_, _)
RunEndNoNewline(line, p) ==
  IF p <= Len(line) /\ line[p] # "\n" THEN RunEndNoNewline(line, p + 1) ELSE p

\* the first position at or after p that holds no character of class
RECURSIVE RunEnd(_, _, _)
RunEnd(line, p, class) ==
  IF At(line, p) \in class THEN RunEnd(line, p + 1, class) ELSE p

\* (\\"|\\\\|\\n|[^"])*" from position k, alternatives tried in order, the
\* star greedy: the position of the closing quote, 0 when there is none
RECURSIVE StrClose(_, _)
StrClose(line, k) ==
  IF k > Len(line) THEN 0
  ELSE
    LET esc == IF line[k] = "\\" /\ At(line, k + 1) \in {"\"", "\\", "n"}
               THEN StrClose(line, k + 2) ELSE 0
        any == IF esc = 0 /\ line[k] # "\"" THEN StrClose(line, k + 1) ELSE 0
    IN IF esc # 0 THEN esc
       ELSE IF any # 0 THEN any
       ELSE IF line[k] = "\"" THEN k
       ELSE 0

\* The capture groups of a match: `next` is the end of the match (exclusive),
\* g1..g4 say which groups took part, `text` is group 1 (q..e-1)
Group(line, q, e, g) ==
  [next |-> e, g1 |-> TRUE, g2 |-> g = 2, g3 |-> g = 3, g4 |-> g = 4,
   text |-> SubSeq(line, q, e - 1)]

NoGroup(q) ==
  [next |-> q, g1 |-> FALSE, g2 |-> FALSE, g3 |-> FALSE, g4 |-> FALSE,
   text |-> <<>>]

\* Alternatives without the two-character operators
Alternatives_single_punct(line, q, close) ==
  IF At(line, q) = "/" /\ At(line, q + 1) = "/"
    THEN Group(line, q, RunEndNoNewline(line, q + 2), 2)
  ELSE IF At(line, q) \in Digit THEN Group(line, q, RunEnd(line, q, Digit), 3)
  ELSE IF close # 0 THEN Group(line, q, close + 1, 4)
  ELSE IF At(line, q) \in IdStart
    THEN Group(line, q, RunEnd(line, q + 1, IdPart), 1)
  ELSE IF At(line, q) \in Punct THEN Group(line, q, q + 1, 1)
  ELSE NoGroup(q)

\* The alternatives of group 1 at position q, in the order of the pattern;
\* close is the closing quote of a string literal opening at q, or 0
Alternatives(line, q, close) ==
  IF At(line, q) = "/" /\ At(line, q + 1) = "/"
    THEN Group(line, q, RunEndNoNewline(line, q + 2), 2)
  ELSE IF At(line, q) \in Digit THEN Group(line, q, RunEnd(line, q, Digit), 3)
  ELSE IF close # 0 THEN Group(line, q, close + 1, 4)
  ELSE IF At(line, q) \in IdStart
    THEN Group(line, q, RunEnd(line, q + 1, IdPart), 1)
  ELSE IF <<At(line, q), At(line, q + 1)>> \in TwoCharOps
    THEN Group(line, q, q + 2, 1)
  ELSE IF At(line, q) \in Punct THEN Group(line, q, q + 1, 1)
  ELSE NoGroup(q)

CapturesAt(line, q) ==
  Alternatives(line, q, IF At(line, q) = "\"" THEN StrClose(line, q + 1) ELSE 0)

\* The match of TOKEN_REG_STR that starts at p
Captures(line, p) == CapturesAt(line, SkipSpace(line, p))

\* The loop over captures_iter in read_line: the tokens pushed for the line
\* (without its EOL) and the error of a failed numeric parse, "" if none
RECURSIVE scan_line(_, _, _, _)

\* scan_number falling back to 0 when the parse fails (unwrap_or_default)
scan_number_defaults(line, ln, toks, cap, n) ==
  scan_line(line, cap.next, ln,
            Append(toks, NumberToken_new(ln, IF n.ok THEN n.value ELSE 0)))

scan_number(line, ln, toks, cap, n) ==
  IF ~n.ok THEN [toks |-> toks, err |-> PARSE_ERR_STR]
  ELSE scan_line(line, cap.next, ln, Append(toks, NumberToken_new(ln, n.value)))

\* scan_capture without the test of group 2: a comment becomes a token
scan_capture_keeps_comment(line, ln, toks, cap) ==
  IF ~cap.g1 THEN [toks |-> toks, err |-> ""]
  ELSE IF cap.g3 THEN scan_number(line, ln, toks, cap, parse_i32(cap.text))
  ELSE IF cap.g4 THEN
    scan_line(line, cap.next, ln, Append(toks, StringToken_new(ln, cap.text)))
  ELSE
    scan_line(line, cap.next, ln, Append(toks, IdToken_new(ln, cap.text)))

scan_capture(line, ln, toks, cap) ==
  IF ~cap.g1 \/ cap.g2 THEN [toks |-> toks, err |-> ""]
  ELSE IF cap.g3 THEN scan_number(line, ln, toks, cap, parse_i32(cap.text))
  ELSE IF cap.g4 THEN
    scan_line(line, cap.next, ln, Append(toks, StringToken_new(ln, cap.text)))
  ELSE
    scan_line(line, cap.next, ln, Append(toks, IdToken_new(ln, cap.text)))

scan_line(line, p, ln, toks) == scan_capture(line, ln, toks, Captures(line, p))

-----------------------------------------------------------------------------
(* The Lexer *)

\* The lexer as a value: its four fields
Lexer == [has_more |-> has_more, token_queue |-> token_queue,
          line_number |-> line_number, reader |-> reader]

Lexer_new(r) == [has_more |-> TRUE, token_queue |-> <<>>, line_number |-> 0,
                 reader |-> r]

\* read_line_eof with the assignment `self.has_more = false` left out
read_line_eof_keeps_more(lx) ==
  [lx |-> [lx EXCEPT !.token_queue = Append(@, EofToken_new(lx.line_number))],
   err |-> ""]

\* read_line_eof counting the zero-byte read as a line
read_line_eof_counts_line(lx) ==
  [lx |-> [lx EXCEPT !.has_more = FALSE,
                     !.line_number = @ + 1,
                     !.token_queue = Append(@, EofToken_new(lx.line_number + 1))],
   err |-> ""]

\* read_line, size = 0: the source is exhausted
read_line_eof(lx) ==
  [lx |-> [lx EXCEPT !.has_more = FALSE,
                     !.token_queue = Append(@, EofToken_new(lx.line_number))],
   err |-> ""]

\* read_line_scan with the line's tokens pushed at the front of the queue
read_line_scan_push_front(lx, ln, sc) ==
  IF sc.err # "" THEN
    [lx |-> [lx EXCEPT !.reader = Tail(@), !.line_number = ln,
                       !.token_queue = sc.toks \o @],
     err |-> sc.err]
  ELSE
    [lx |-> [lx EXCEPT !.reader = Tail(@), !.line_number = ln,
                       !.token_queue = Append(sc.toks, EolToken_new(ln)) \o @],
     err |-> ""]

\* read_line_scan with no EOL for a line that produced no content token
read_line_scan_skips_blank(lx, ln, sc) ==
  IF sc.err # "" THEN
    [lx |-> [lx EXCEPT !.reader = Tail(@), !.line_number = ln,
                       !.token_queue = @ \o sc.toks],
     err |-> sc.err]
  ELSE IF sc.toks = <<>> THEN
    [lx |-> [lx EXCEPT !.reader = Tail(@), !.line_number = ln], err |-> ""]
  ELSE
    [lx |-> [lx EXCEPT !.reader = Tail(@), !.line_number = ln,
                       !.token_queue = Append(@ \o sc.toks, EolToken_new(ln))],
     err |-> ""]

\* read_line_scan undoing the line when the scan fails
read_line_scan_rolls_back(lx, ln, sc) ==
  IF sc.err # "" THEN
    [lx |-> [lx EXCEPT !.reader = Tail(@)], err |-> sc.err]
  ELSE
    [lx |-> [lx EXCEPT !.reader = Tail(@), !.line_number = ln,
                       !.token_queue = Append(@ \o sc.toks, EolToken_new(ln))],
     err |-> ""]

\* read_line_scan without the push of the EolToken
read_line_scan_no_eol(lx, ln, sc) ==
  [lx |-> [lx EXCEPT !.reader = Tail(@), !.line_number = ln,
                     !.token_queue = @ \o sc.toks],
   err |-> sc.err]

\* read_line, size > 0: the line is scanned under the incremented line number
read_line_scan(lx, ln, sc) ==
  IF sc.err # "" THEN
    [lx |-> [lx EXCEPT !.reader = Tail(@), !.line_number = ln,
                       !.token_queue = @ \o sc.toks],
     err |-> sc.err]
  ELSE
    [lx |-> [lx EXCEPT !.reader = Tail(@), !.line_number = ln,
                       !.token_queue = Append(@ \o sc.toks, EolToken_new(ln))],
     err |-> ""]

\* read_line scanning the line under the line number of the line before
read_line_scans_under_old(lx) ==
  IF lx.reader = <<>> THEN read_line_eof(lx)
  ELSE IF Head(lx.reader).io_err
    THEN [lx |-> [lx EXCEPT !.reader = Tail(@)], err |-> IO_ERR_STR]
  ELSE read_line_scan(lx, lx.line_number + 1,
                      scan_line(Head(lx.reader).line, 1, lx.line_number, <<>>))

\* Lexer::read_line: [lx: the lexer afterwards, err: "" or the error string]
read_line(lx) ==
  IF lx.reader = <<>> THEN read_line_eof(lx)
  ELSE IF Head(lx.reader).io_err
    THEN [lx |-> [lx EXCEPT !.reader = Tail(@)], err |-> IO_ERR_STR]
  ELSE read_line_scan(lx, lx.line_number + 1,
                      scan_line(Head(lx.reader).line, 1, lx.line_number + 1, <<>>))

\* Lexer::fill_queue: [lx, res: Ok(res) when err = "", n: calls of read_line]
RECURSIVE fill_queue_from(_, _, _)

fill_queue_after(r, i, n) ==
  IF r.err # "" THEN [lx |-> r.lx, res |-> FALSE, err |-> r.err, n |-> n]
  ELSE fill_queue_from(r.lx, i, n)

\* fill_queue with the loop condition `i > self.token_queue.len()`
fill_queue_from_gt(lx, i, n) ==
  IF i > Len(lx.token_queue) THEN
    IF lx.has_more THEN fill_queue_after(read_line(lx), i, n + 1)
    ELSE [lx |-> lx, res |-> FALSE, err |-> "", n |-> n]
  ELSE [lx |-> lx, res |-> TRUE, err |-> "", n |-> n]

\* fill_queue reading on without testing has_more
fill_queue_from_ignores_has_more(lx, i, n) ==
  IF i >= Len(lx.token_queue) THEN fill_queue_after(read_line(lx), i, n + 1)
  ELSE [lx |-> lx, res |-> TRUE, err |-> "", n |-> n]

\* fill_queue keeping one token more than asked for in the queue
fill_queue_from_eager(lx, i, n) ==
  IF i + 1 >= Len(lx.token_queue) THEN
    IF lx.has_more THEN fill_queue_after(read_line(lx), i, n + 1)
    ELSE [lx |-> lx, res |-> i < Len(lx.token_queue), err |-> "", n |-> n]
  ELSE [lx |-> lx, res |-> TRUE, err |-> "", n |-> n]

fill_queue_from(lx, i, n) ==
  IF i >= Len(lx.token_queue) THEN
    IF lx.has_more THEN fill_queue_after(read_line(lx), i, n + 1)
    ELSE [lx |-> lx, res |-> FALSE, err |-> "", n |-> n]
  ELSE [lx |-> lx, res |-> TRUE, err |-> "", n |-> n]

fill_queue(lx, i) == fill_queue_from(lx, i, 0)

Ok(op, i, t) == [op |-> op, i |-> i, ok |-> TRUE, tok |-> t, err |-> ""]

Err(op, i, e) == [op |-> op, i |-> i, ok |-> FALSE, tok |-> NoToken, err |-> e]

\* read, after `let result = self.fill_queue(0)?`
read_filled(f) ==
  IF f.err # "" THEN [lx |-> f.lx, ret |-> Err("read", 0, f.err), n |-> f.n]
  ELSE IF f.res THEN
    IF f.lx.token_queue = <<>>
    THEN [lx |-> f.lx, ret |-> Err("read", 0, POP_ERR_STR), n |-> f.n]
    ELSE [lx |-> [f.lx EXCEPT !.token_queue = Tail(@)],
          ret |-> Ok("read", 0, Head(f.lx.token_queue)), n |-> f.n]
  ELSE [lx |-> f.lx, ret |-> Err("read", 0, EOF_ERR_STR), n |-> f.n]

\* Lexer::read: [lx, ret, n]
read(lx) == read_filled(fill_queue(lx, 0))

\* peek_filled taking the token out of the queue (pop_front) instead of
\* borrowing the i-th
peek_filled_pops(f, i) ==
  IF f.err # "" THEN [lx |-> f.lx, ret |-> Err("peek", i, f.err), n |-> f.n]
  ELSE IF f.res /\ i < Len(f.lx.token_queue)
  THEN [lx |-> [f.lx EXCEPT !.token_queue = Tail(@)],
        ret |-> Ok("peek", i, Head(f.lx.token_queue)), n |-> f.n]
  ELSE [lx |-> f.lx, ret |-> Err("peek", i, EOF_ERR_STR), n |-> f.n]

\* peek, after `let result = self.fill_queue(i)?`
peek_filled(f, i) ==
  IF f.err # "" THEN [lx |-> f.lx, ret |-> Err("peek", i, f.err), n |-> f.n]
  ELSE IF f.res /\ i < Len(f.lx.token_queue)
  THEN [lx |-> f.lx, ret |-> Ok("peek", i, f.lx.token_queue[i + 1]), n |-> f.n]
  ELSE [lx |-> f.lx, ret |-> Err("peek", i, EOF_ERR_STR), n |-> f.n]

\* Lexer::peek: [lx, ret, n]
peek(lx, i) == peek_filled(fill_queue(lx, i), i)

-----------------------------------------------------------------------------
(* Sources *)

NL == <<"\n">>

\* Line contents the sources are drawn from (without the line terminator).
\* "U+00E9" stands for the one character e-acute, which no alternative of the
\* pattern matches.
SampleLines ==
  { <<>>,
    <<"i", " ", "=", " ", "1">>,
    <<"1", "0", "0">>,
    <<"0", "0", "7">>,
    <<"\"", "h", "i", "\"">>,
    <<"/", "/", " ", "c">>,
    <<"a", " ", "/", "/", "b">>,
    <<"a", "=", "=", "0", "0", "7">>,
    <<"2", "1", "4", "7", "4", "8", "3", "6", "4", "7">>,
    <<"2", "1", "4", "7", "4", "8", "3", "6", "4", "8">>,
    <<"x", " ", "9", "9", "9", "9", "9", "9", "9", "9", "9", "9", " ", "y">>,
    <<"a", " ", "U+00E9", " ", "b">> }

LineItem(l) == [io_err |-> FALSE, line |-> l]

IoErrItem == [io_err |-> TRUE, line |-> <<>>]

\* what BufRead::read_line can hand out: a terminated line, an unterminated
\* non-empty last line, or an I/O failure (the failed read is used up: the
\* next read goes on with the item after it)
Items == {LineItem(c \o NL) : c \in SampleLines}
         \cup {LineItem(c) : c \in SampleLines \ {<<>>}}
         \cup {IoErrItem}

Terminated(it) == it.io_err \/ it.line[Len(it.line)] = "\n"

SeqsUpTo(S, n) == UNION {[1..k -> S] : k \in 0..n}

Sources == {s \in SeqsUpTo(Items, MaxLines) :
              \A k \in 1..(Len(s) - 1) : Terminated(s[k])}

\* The characters the one-line sources are built from: one of each kind the
\* pattern tells apart ("U+00E9" again stands for e-acute)
ScanChars == {"a", "1", " ", "/", "=", "\"", "\\", "U+00E9"}

\* longer lines: the tests' sources, escapes inside a literal, operators
ScanExamples ==
  { <<"i", " ", "=", " ", "1">>,
    <<"\"", "h", "i", "\"">>,
    <<"\"", "\\", "\"", "\"">>,
    <<"\"", "a", "\\", "n", "b", "\"">>,
    <<"\"", "\\", "\\", "\"", "a", "\"">>,
    <<"a", "<", "=", "b", "1">>,
    <<"x", "&", "&", "y", "|", "|", "z">>,
    <<"=", "=", "=", ">", "=", "<">>,
    <<"0", "1", "0", "a", "_", "1">>,
    <<"a", " ", "/", "/", "b">> }

ScanLines == SeqsUpTo(ScanChars, MaxLineLen) \cup ScanExamples

\* one line, terminated or (when not empty) the unterminated last line
ScanSources == {<<LineItem(c \o NL)>> : c \in ScanLines}
               \cup {<<LineItem(c)>> : c \in ScanLines \ {<<>>}}

-----------------------------------------------------------------------------
(* The tokenizer as a state machine *)

NoRet == [op |-> "none", i |-> 0, ok |-> FALSE, tok |-> NoToken, err |-> ""]

NoTree == [kind |-> "NONE", token |-> NoToken, token_list |-> <<>>]

NoAstRet == [op |-> "none", i |-> 0, ok |-> FALSE, panic |-> FALSE,
             tok |-> NoToken, num |-> 0, text |-> <<>>, err |-> ""]

\* no iterator yet; `nth` counts the calls of children(), `ended` says that
\* next() has returned None
NoIter == [nth |-> 0, index |-> 0, ended |-> 0]

Init ==
  /\ source \in Sources
  /\ reader = source
  /\ has_more = TRUE
  /\ token_queue = <<>>
  /\ line_number = 0
  /\ ret = NoRet
  /\ consumed = <<>>
  /\ appended = <<>>
  /\ pulls = 0
  /\ tree = NoTree
  /\ ast_ret = NoAstRet
  /\ aborted = FALSE
  /\ iter = NoIter
  /\ yielded = <<>>

\* Lexer::new over a one-line source
InitScan ==
  /\ source \in ScanSources
  /\ reader = source
  /\ has_more = TRUE
  /\ token_queue = <<>>
  /\ line_number = 0
  /\ ret = NoRet
  /\ consumed = <<>>
  /\ appended = <<>>
  /\ pulls = 0
  /\ tree = NoTree
  /\ ast_ret = NoAstRet
  /\ aborted = FALSE
  /\ iter = NoIter
  /\ yielded = <<>>

\* what a call pushed: the part of the filled queue beyond the queue before
Pushed(before, f) ==
  SubSeq(f.lx.token_queue, Len(before) + 1, Len(f.lx.token_queue))

\* a call's effect on the lexer: r is the call's result, f its fill of the queue
Call(r, f) ==
  /\ has_more' = r.lx.has_more
  /\ token_queue' = r.lx.token_queue
  /\ line_number' = r.lx.line_number
  /\ reader' = r.lx.reader
  /\ appended' = appended \o Pushed(token_queue, f)
  /\ pulls' = r.n

\* lexer.read()
Read ==
  /\ ret' = read(Lexer).ret
  /\ consumed' = IF read(Lexer).ret.ok
                 THEN Append(consumed, read(Lexer).ret.tok) ELSE consumed
  /\ Call(read(Lexer), fill_queue(Lexer, 0))
  /\ UNCHANGED <<source, ast_vars>>

\* lexer.peek(i)
Peek(i) ==
  /\ ret' = peek(Lexer, i).ret
  /\ Call(peek(Lexer, i), fill_queue(Lexer, i))
  /\ UNCHANGED <<source, consumed, ast_vars>>

PeekAny == \E i \in 0..MaxPeek : Peek(i)

Next == Read \/ PeekAny

Spec == Init /\ [][Next]_vars

SpecScan == InitScan /\ [][Next]_vars

-----------------------------------------------------------------------------
(* The tree container *)

LEAF(token) == [kind |-> "LEAF", token |-> token, token_list |-> <<>>]

LIST(token_list) == [kind |-> "LIST", token |-> NoToken, token_list |-> token_list]

AstOk(op, i, t, num, text) ==
  [op |-> op, i |-> i, ok |-> TRUE, panic |-> FALSE, tok |-> t, num |-> num,
   text |-> text, err |-> ""]

AstErr(op, i, e) ==
  [op |-> op, i |-> i, ok |-> FALSE, panic |-> FALSE, tok |-> NoToken,
   num |-> 0, text |-> <<>>, err |-> e]

AstPanic(op) ==
  [op |-> op, i |-> 0, ok |-> FALSE, panic |-> TRUE, tok |-> NoToken,
   num |-> 0, text |-> <<>>, err |-> ""]

\* child counting from the back of the list (iter().rev().nth(i))
child_reversed(t, i) ==
  IF t.kind = "LEAF" THEN AstErr("child", i, OUT_OF_BOUNDS_STR)
  ELSE IF i < Len(t.token_list)
    THEN AstOk("child", i, t.token_list[Len(t.token_list) - i], 0, <<>>)
  ELSE AstErr("child", i, OUT_OF_BOUNDS_STR)

\* child with an error of its own for a leaf
child_leaf_own_error(t, i) ==
  IF t.kind = "LEAF" THEN AstErr("child", i, "Not applicable!")
  ELSE IF i < Len(t.token_list) THEN AstOk("child", i, t.token_list[i + 1], 0, <<>>)
  ELSE AstErr("child", i, OUT_OF_BOUNDS_STR)

\* ASTree::child
child(t, i) ==
  IF t.kind = "LEAF" THEN AstErr("child", i, OUT_OF_BOUNDS_STR)
  ELSE IF i < Len(t.token_list) THEN AstOk("child", i, t.token_list[i + 1], 0, <<>>)
  ELSE AstErr("child", i, OUT_OF_BOUNDS_STR)

\* ASTree::children_number
children_number(t) ==
  IF t.kind = "LEAF" THEN 0 ELSE Len(t.token_list)

AT_LINE_STR == <<"a", "t", " ", "l", "i", "n", "e", ":", " ">>

\* ASTree::get_location_from_token: format!("at line: {}", ...)
get_location_from_token(token) ==
  AstOk("location", 0, NoToken, 0, AT_LINE_STR \o to_string(get_line_number(token)))

\* ASTree::location; nth(0).unwrap() panics when the list is empty
location(t) ==
  IF t.kind = "LEAF" THEN get_location_from_token(t.token)
  ELSE IF t.token_list # <<>> THEN get_location_from_token(t.token_list[1])
  ELSE AstPanic("location")

\* ASTree::children: ASTreeIter{ value: self, index: 0 }; the iterator borrows
\* the tree, which `tree` stands for
children(t, nth) == [nth |-> nth, index |-> 0, ended |-> 0]

\* Option<&Token> of next(): Some(token), None
Some(t) == AstOk("next", 0, t, 0, <<>>)

None == AstErr("next", 0, "")

\* Result::ok
ok(r) == IF r.ok THEN Some(r.tok) ELSE None

\* what next() has to remember of its answer
Ended(it, item) == IF item.ok THEN it.ended ELSE it.ended + 1

\* next looking up the child under the index already incremented
next_skips_first(t, it) ==
  IF t.kind = "LEAF" THEN [it |-> [it EXCEPT !.ended = @ + 1], item |-> None]
  ELSE [it |-> [it EXCEPT !.index = @ + 1,
                          !.ended = Ended(it, ok(child(t, it.index + 1)))],
        item |-> ok(child(t, it.index + 1))]

\* ASTreeIter::next: [it: the iterator afterwards, item]
next(t, it) ==
  IF t.kind = "LEAF" THEN [it |-> [it EXCEPT !.ended = @ + 1], item |-> None]
  ELSE [it |-> [it EXCEPT !.index = @ + 1,
                          !.ended = Ended(it, ok(child(t, it.index)))],
        item |-> ok(child(t, it.index))]

\* tokens the trees are built from
SampleTokens == {NumberToken_new(1, 1), IdToken_new(1, <<"+">>),
                 NumberToken_new(2, 2)}

Trees == {LEAF(t) : t \in SampleTokens}
         \cup {LIST(l) : l \in SeqsUpTo(SampleTokens, MaxChildren)}

InitAST ==
  /\ source = <<>>
  /\ reader = <<>>
  /\ has_more = TRUE
  /\ token_queue = <<>>
  /\ line_number = 0
  /\ ret = NoRet
  /\ consumed = <<>>
  /\ appended = <<>>
  /\ pulls = 0
  /\ tree \in Trees
  /\ ast_ret = NoAstRet
  /\ aborted = FALSE
  /\ iter = NoIter
  /\ yielded = <<>>

\* tree.child(i)
Child(i) ==
  /\ ~aborted
  /\ ast_ret' = child(tree, i)
  /\ UNCHANGED <<tree, aborted, iter_vars, lexer_vars>>

ChildAny == \E i \in 0..(MaxChildren + 1) : Child(i)

\* tree.children_number()
ChildrenNumber ==
  /\ ~aborted
  /\ ast_ret' = AstOk("children_number", 0, NoToken, children_number(tree), <<>>)
  /\ UNCHANGED <<tree, aborted, iter_vars, lexer_vars>>

\* tree.location(); a panic ends the process
Location ==
  /\ ~aborted
  /\ ast_ret' = location(tree)
  /\ aborted' = location(tree).panic
  /\ UNCHANGED <<tree, iter_vars, lexer_vars>>

\* tree.children(): a new iterator replaces the one before
Children ==
  /\ ~aborted
  /\ iter.nth < MaxTraversals
  /\ iter' = children(tree, iter.nth + 1)
  /\ yielded' = <<>>
  /\ ast_ret' = AstOk("children", 0, NoToken, 0, <<>>)
  /\ UNCHANGED <<tree, aborted, lexer_vars>>

\* iterator.next()
IterNext ==
  /\ ~aborted
  /\ iter.nth > 0
  /\ iter.ended < MaxNextAfterEnd
  /\ ast_ret' = next(tree, iter).item
  /\ iter' = next(tree, iter).it
  /\ yielded' = IF next(tree, iter).item.ok
                THEN Append(yielded, next(tree, iter).item.tok) ELSE yielded
  /\ UNCHANGED <<tree, aborted, lexer_vars>>

NextAST == ChildAny \/ ChildrenNumber \/ Location \/ Children \/ IterNext

SpecAST == InitAST /\ [][NextAST]_vars

-----------------------------------------------------------------------------
(* Properties of read and peek *)

IsEof(t) == t.category = "EOF"

EofConsumed == \E k \in 1..Len(consumed) : IsEof(consumed[k])

EndOfStream(op, i) == Err(op, i, EOF_ERR_STR)

\* C1: on an empty source the first read() returns EndOfInput at line 0; for
\* any source, once read() has returned the EndOfInput token the queue is
\* empty, the lexer is exhausted, and every later read() fails with EndOfStream
\* and returns no token (so the EndOfInput token stays the last one consumed).
C1_EndOfStreamAfterEndOfInput ==
  /\ (source = <<>> /\ consumed # <<>>) => consumed[1] = EofToken_new(0)
  /\ \A k \in 1..Len(consumed) :
       IsEof(consumed[k]) =>
         /\ k = Len(consumed)
         /\ token_queue = <<>>
         /\ ~has_more
         /\ ret.op = "read" =>
              ret \in {Ok("read", 0, consumed[k]), EndOfStream("read", 0)}
         /\ read(Lexer).ret = EndOfStream("read", 0)
         /\ read(Lexer).lx = Lexer

\* a read() after the EndOfInput of a non-empty source was consumed has failed
C1_Witness ==
  /\ Len(consumed) > 1
  /\ IsEof(consumed[Len(consumed)])
  /\ ret = EndOfStream("read", 0)

\* C2, in a state: the token the last peek(i) returned is what peek(i) returns
\* when called again now, and after peek(0) it is what read() returns now.
PeekRepeats ==
  (ret.op = "peek" /\ ret.ok) =>
    /\ peek(Lexer, ret.i).ret = ret
    /\ ret.i = 0 => read(Lexer).ret = Ok("read", 0, ret.tok)

\* C2, over a step: a peek call (of any offset) changes the answer of no
\* peek(i) that would have succeeded before it.
PeekKeepsPeeks ==
  ret'.op = "peek" =>
    \A i \in 0..MaxPeek :
      peek(Lexer, i).ret.ok => peek(Lexer', i).ret = peek(Lexer, i).ret

\* C2: peek is idempotent: with no read() in between, every call of peek(i)
\* returns the identical token (category, text, line), and after peek(0) the
\* next read() returns that token.
C2_PeekIdempotent == [](PeekRepeats) /\ [][PeekKeepsPeeks]_vars

\* a peek(1) answered from the queue alone: an earlier peek had filled it
C2_Witness ==
  /\ ret.op = "peek" /\ ret.ok /\ ret.i = 1
  /\ pulls = 0
  /\ consumed = <<>>

-----------------------------------------------------------------------------
(* The token stream of a source *)

IsPrefix(s, t) == Len(s) <= Len(t) /\ s = SubSeq(t, 1, Len(s))

Last(s) == s[Len(s)]

\* The tokens a lexer whose line counter is ln appends while it reads the
\* items to their end: per line its content tokens and its EOL (the tokens
\* before the offending digit run when the parse fails), nothing for a failed
\* read, and the EOF at the end.
RECURSIVE StreamFrom(_, _)

StreamItem(items, ln, sc) ==
  sc.toks \o (IF sc.err = "" THEN <<EolToken_new(ln + 1)>> ELSE <<>>)
          \o StreamFrom(Tail(items), ln + 1)

StreamFrom(items, ln) ==
  IF items = <<>> THEN <<EofToken_new(ln)>>
  ELSE IF Head(items).io_err THEN StreamFrom(Tail(items), ln)
  ELSE StreamItem(items, ln, scan_line(Head(items).line, 1, ln + 1, <<>>))

Stream == StreamFrom(source, 0)

\* the items handed out so far
Pulled == Len(source) - Len(reader)

ItemFails(it) == it.io_err \/ scan_line(it.line, 1, 1, <<>>).err # ""

\* no I/O failure and every digit run fits
WellFormed == \A k \in 1..Len(source) : ~ItemFails(source[k])

\* the tokens not yet returned by read(): those queued and those of the
\* lines not yet pulled, the EOF included
Unread ==
  Len(token_queue) + (IF has_more THEN Len(StreamFrom(reader, line_number)) ELSE 0)

\* the result of the n-th of n successive read() calls
RECURSIVE NthRead(_, _)
NthRead(lx, n) == IF n <= 1 THEN read(lx).ret ELSE NthRead(read(lx).lx, n - 1)

-----------------------------------------------------------------------------

\* C3, in a state: the token a successful peek(i) returned is the one the
\* (i+1)-th read() from here returns.
PeekAgreesWithRead ==
  (ret.op = "peek" /\ ret.ok) => NthRead(Lexer, ret.i + 1) = Ok("read", 0, ret.tok)

\* C3, in a state: the tokens read so far followed by the queued ones are the
\* tokens pushed so far, which are a prefix of the token stream of the source:
\* the k-th token read() returns is the k-th of the stream, whatever peek
\* calls came in between.
ReadsFollowStream ==
  /\ consumed \o token_queue = appended
  /\ IsPrefix(appended, Stream)

\* C3, over a step: a peek call, successful or failing, keeps the queue as a
\* prefix of the queue after it.
PeekKeepsQueue == ret'.op = "peek" => IsPrefix(token_queue, token_queue')

\* C3: peek is non-consuming and agrees with read.
C3_PeekNonConsuming ==
  [](PeekAgreesWithRead /\ ReadsFollowStream) /\ [][PeekKeepsQueue]_vars

\* a peek(2) that pulled a line onto a non-empty queue after a read
C3_Witness ==
  /\ ret.op = "peek" /\ ret.ok /\ ret.i = 2
  /\ pulls > 0
  /\ consumed # <<>>
  /\ token_queue[1].line_number < token_queue[3].line_number

\* what a failing peek must look like, and what it must leave behind
FailsWithEndOfStream(p, i) ==
  /\ p.ret = EndOfStream("peek", i)
  /\ ~p.lx.has_more
  /\ IsPrefix(token_queue, p.lx.token_queue)
  /\ \A k \in 1..Len(p.lx.token_queue) :
       NthRead(p.lx, k) = Ok("read", 0, p.lx.token_queue[k])

\* C4: absent I/O and numeric-parse failures, in every state and for every
\* offset i, peek(i) succeeds when more than i tokens remain unread (queued
\* or still to be scanned, the EOF included) and otherwise fails with
\* EndOfStream, exhausted, leaving the queued tokens readable; on an empty
\* source peek(0) returns the EOF of line 0 and peek(1), peek(2) fail.
C4_PeekEndOfStream ==
  WellFormed =>
    /\ \A i \in 0..MaxPeek :
         IF Unread > i THEN peek(Lexer, i).ret.ok
         ELSE FailsWithEndOfStream(peek(Lexer, i), i)
    /\ ret.op = "peek" => (ret.ok <=> Unread > ret.i)
    /\ (ret.op = "peek" /\ ~ret.ok) => ret = EndOfStream("peek", ret.i)
    /\ (source = <<>> /\ ret.op = "peek" /\ consumed = <<>>) =>
         ret = IF ret.i = 0 THEN Ok("peek", 0, EofToken_new(0))
               ELSE EndOfStream("peek", ret.i)

\* a peek(2) on a well-formed non-empty source failed with tokens still queued
C4_Witness ==
  /\ WellFormed
  /\ source # <<>>
  /\ ret = EndOfStream("peek", 2)
  /\ Len(token_queue) = 2

EofCount == Cardinality({k \in 1..Len(appended) : IsEof(appended[k])})

\* C5, in a state: at most one EOF was pushed; it was pushed iff the lexer is
\* exhausted, and then the source is at its end and the EOF is the last token.
EofOnceAndLast ==
  /\ EofCount <= 1
  /\ has_more <=> EofCount = 0
  /\ ~has_more => (reader = <<>> /\ IsEof(Last(appended)))

\* C5, over a step: an exhausted lexer stays exhausted, reads the source no
\* more and pushes nothing; the step that exhausts it pushes the EOF, as the
\* last token, on reading the source at its end.
ExhaustedIsFinal ==
  /\ ~has_more =>
       (~has_more' /\ appended' = appended /\ reader' = reader /\ pulls' = 0)
  /\ (has_more /\ ~has_more') =>
       /\ reader' = <<>>
       /\ pulls' > 0
       /\ Len(appended') > Len(appended)
       /\ IsEof(Last(appended'))
       /\ \A k \in 1..(Len(appended') - 1) : ~IsEof(appended'[k])

\* C5: the EOF token is pushed at most once, at the step to Exhausted, after
\* which nothing is pushed and the source is not read.
C5_EndOfInputOnce == [](EofOnceAndLast) /\ [][ExhaustedIsFinal]_vars

\* a peek beyond the end of an exhausted lexer that had read two lines
C5_Witness ==
  /\ ~has_more
  /\ line_number = 2
  /\ ret.op = "peek" /\ ~ret.ok
  /\ pulls = 0

IsEol(t) == t.category = "EOL"

EolsOfLine(l) ==
  {k \in 1..Len(appended) : IsEol(appended[k]) /\ appended[k].line_number = l}

\* C6: for a well-formed source, in every state the EOL tokens pushed so far
\* are as many as the lines pulled, which is the line counter: one EOL for each
\* line pulled, pushed after the tokens of that line and of the lines before
\* it and before the tokens of the lines after it.
C6_OneEndOfLinePerLine ==
  WellFormed =>
    /\ line_number = Pulled
    /\ Cardinality({k \in 1..Len(appended) : IsEol(appended[k])}) = line_number
    /\ \A l \in 1..line_number : Cardinality(EolsOfLine(l)) = 1
    /\ \A k \in 1..Len(appended) :
         IsEol(appended[k]) =>
           /\ appended[k].line_number \in 1..line_number
           /\ \A j \in 1..(k - 1) :
                appended[j].line_number <= appended[k].line_number
           /\ \A j \in (k + 1)..Len(appended) :
                \/ appended[j].line_number > appended[k].line_number
                \/ IsEof(appended[j])

\* two lines without content (blank, comment-only) were pulled, then a third
\* token was pushed
C6_Witness ==
  /\ WellFormed
  /\ line_number = 2
  /\ Len(appended) >= 3
  /\ IsEol(appended[1]) /\ IsEol(appended[2])

-----------------------------------------------------------------------------
(* Numbers *)

RECURSIVE StripZeros(_)
StripZeros(s) ==
  IF Len(s) > 1 /\ s[1] = "0" THEN StripZeros(Tail(s)) ELSE s

RECURSIVE Pow10(_)
Pow10(n) == IF n = 0 THEN 1 ELSE 10 * Pow10(n - 1)

RECURSIVE SumDigits(_, _)
SumDigits(s, k) ==
  IF k > Len(s) THEN 0
  ELSE DigitVal(s[k]) * Pow10(Len(s) - k) + SumDigits(s, k + 1)

\* the decimal value of a digit run (that fits)
DecimalValue(s) == SumDigits(StripZeros(s), 1)

I32MaxDigits == <<"2", "1", "4", "7", "4", "8", "3", "6", "4", "7">>

\* s <= t for digit runs of the same length
RECURSIVE DigitsLeq(_, _)
DigitsLeq(s, t) ==
  IF s = <<>> THEN TRUE
  ELSE IF DigitVal(s[1]) # DigitVal(t[1]) THEN DigitVal(s[1]) < DigitVal(t[1])
  ELSE DigitsLeq(Tail(s), Tail(t))

\* the digit run is at most 2147483647
FitsI32(s) ==
  \/ Len(StripZeros(s)) < Len(I32MaxDigits)
  \/ /\ Len(StripZeros(s)) = Len(I32MaxDigits)
     /\ DigitsLeq(StripZeros(s), I32MaxDigits)

\* the text of a line without its terminator
Content(line) ==
  IF line # <<>> /\ Last(line) = "\n" THEN SubSeq(line, 1, Len(line) - 1) ELSE line

\* the item is a line that holds one digit run and nothing else
IsDigitRun(it) ==
  /\ ~it.io_err
  /\ Content(it.line) # <<>>
  /\ \A k \in 1..Len(Content(it.line)) : Content(it.line)[k] \in Digit

\* the line number item k of the source is scanned under
LineOf(k) == Cardinality({j \in 1..k : ~source[j].io_err})

\* the last call ended with pulling an item (not with the read at the end of
\* the source)
EndedOnItem == ret.op # "none" /\ pulls > 0 /\ has_more

\* C7: the call that pulls an item whose read fails, or a line with a digit
\* run beyond the i32 range, returns an error that is not EndOfStream, and
\* no other call does; the process goes on, the lexer stays Streaming and the
\* line gets no EOL.  A line that is one digit run that fits puts the Number
\* token of its decimal value in the stream; one that does not fit fails.
C7_FailuresAreErrors ==
  /\ ~aborted
  /\ (~ret.ok /\ ret.op # "none" /\ ret.err # EOF_ERR_STR) <=>
       (EndedOnItem /\ ItemFails(source[Pulled]))
  /\ (EndedOnItem /\ ItemFails(source[Pulled])) =>
       /\ ret = Err(ret.op, ret.i, IF source[Pulled].io_err THEN IO_ERR_STR
                                   ELSE PARSE_ERR_STR)
       /\ ret.err \notin {EOF_ERR_STR, POP_ERR_STR}
       /\ line_number = LineOf(Pulled)
       /\ (~source[Pulled].io_err /\ appended # <<>>) =>
            ~(IsEol(Last(appended)) /\ Last(appended).line_number = line_number)
  /\ \A k \in 1..Pulled :
       IsDigitRun(source[k]) =>
         IF FitsI32(Content(source[k].line))
         THEN /\ ~ItemFails(source[k])
              /\ \E j \in 1..Len(appended) :
                   /\ appended[j] = NumberToken_new(
                          LineOf(k), DecimalValue(Content(source[k].line)))
                   /\ IsEol(appended[j + 1])
         ELSE ItemFails(source[k])

\* a read() failed on a digit run that does not fit, in the middle of a line,
\* after a line that is a digit run that fits
C7_Witness ==
  /\ ret = Err("read", 0, PARSE_ERR_STR)
  /\ Pulled = 2
  /\ IsDigitRun(source[1])
  /\ ~IsDigitRun(source[2])
  /\ ~source[2].io_err

-----------------------------------------------------------------------------
(* Properties of the tree container *)

\* the error a List reports for an index that is not below children_number()
IndexOutOfBounds(i) == AstErr("child", i, OUT_OF_BOUNDS_STR)

\* C8: a Leaf reports children_number() = 0; a List built with N children
\* reports N, child(i) returns the i-th inserted child for 0 <= i < N and
\* fails with IndexOutOfBounds for every i >= N.
C8_ChildAccess ==
  /\ (tree.kind = "LEAF" /\ ast_ret.op = "children_number") => ast_ret.num = 0
  /\ (tree.kind = "LIST" /\ ast_ret.op = "children_number") =>
       ast_ret.num = Len(tree.token_list)
  /\ (tree.kind = "LIST" /\ ast_ret.op = "child") =>
       ast_ret = IF ast_ret.i < Len(tree.token_list)
                 THEN AstOk("child", ast_ret.i, tree.token_list[ast_ret.i + 1],
                            0, <<>>)
                 ELSE IndexOutOfBounds(ast_ret.i)

\* child(N) failed on a List of N = MaxChildren children, not all the same
C8_Witness ==
  /\ tree.kind = "LIST"
  /\ Len(tree.token_list) = MaxChildren
  /\ tree.token_list[1] # tree.token_list[MaxChildren]
  /\ ast_ret = IndexOutOfBounds(MaxChildren)

\* C9 as claimed: child(i) on a Leaf fails, with an error that is not the one
\* a List reports for an index out of its bounds.
C9_LeafChildNotApplicable ==
  (tree.kind = "LEAF" /\ ast_ret.op = "child") =>
    /\ ~ast_ret.ok
    /\ ast_ret.err # child(LIST(<<>>), ast_ret.i).err

\* C9 as the code has it: child(i) on a Leaf fails for every index i, with the
\* very error ("Out of bounds!") a List reports for i >= children_number().
C9_LeafChildOutOfBounds ==
  (tree.kind = "LEAF" /\ ast_ret.op = "child") =>
    /\ ast_ret = IndexOutOfBounds(ast_ret.i)
    /\ ast_ret = child(LIST(<<>>), ast_ret.i)

\* child(1) was called on a Leaf
C9_Witness ==
  /\ tree.kind = "LEAF"
  /\ ast_ret.op = "child" /\ ast_ret.i = 1
  /\ ~ast_ret.ok

\* C10: location() never aborts the process; it returns a value exactly for a
\* Leaf and for a List with at least one child, and an error result otherwise.
C10_LocationRecoverable ==
  /\ ~aborted
  /\ ast_ret.op = "location" =>
       /\ ~ast_ret.panic
       /\ ast_ret.ok <=> (tree.kind = "LEAF" \/ tree.token_list # <<>>)

-----------------------------------------------------------------------------
(* Properties of the children() iterator *)

Min(a, b) == IF a <= b THEN a ELSE b

\* the first n children of the tree, in insertion order
FirstChildren(n) == [k \in 1..n |-> child(tree, k - 1).tok]

\* C11, in a state: the iterator has yielded child(0), child(1), ... in
\* order, as many as next() calls were made up to children_number(); it
\* reports its end only after all of them, and from then on only its end; a
\* Leaf yields nothing.
IterTraversal ==
  iter.nth > 0 =>
    /\ yielded = FirstChildren(Min(iter.index, children_number(tree)))
    /\ tree.kind = "LEAF" => yielded = <<>>
    /\ (tree.kind = "LIST" /\ iter.ended = 0) => Len(yielded) = iter.index
    /\ iter.ended > 0 => Len(yielded) = children_number(tree)
    /\ ast_ret.op = "next" =>
         ast_ret = IF iter.ended > 0 THEN None ELSE Some(Last(yielded))

\* C11, over a step: no call changes the tree (so neither children_number()
\* nor the children), and a new call of children() starts at the first child.
IterRestarts ==
  /\ tree' = tree
  /\ children_number(tree') = children_number(tree)
  /\ iter'.nth # iter.nth =>
       /\ yielded' = <<>>
       /\ next(tree', iter').item =
            IF children_number(tree) > 0 THEN Some(child(tree, 0).tok) ELSE None

\* C11: children() yields a finite, restartable sequence.
C11_ChildrenIterator == [](IterTraversal) /\ [][IterRestarts]_vars

\* the second traversal of a List of MaxChildren children came to its end and
\* was asked again
C11_Witness ==
  /\ tree.kind = "LIST"
  /\ Len(tree.token_list) = MaxChildren
  /\ tree.token_list[1] # tree.token_list[MaxChildren]
  /\ iter.nth = MaxTraversals
  /\ iter.ended = MaxNextAfterEnd
  /\ yielded = tree.token_list
  /\ ast_ret = None

-----------------------------------------------------------------------------
(* Properties of the token queries *)

\* the tokens pushed for item k of the source, a line that was pulled
TokensOfLine(k) ==
  {j \in 1..Len(appended) : appended[j].line_number = LineOf(k)
                            /\ ~IsEof(appended[j])}

\* C12: of the tokens the lexer produces, get_number succeeds exactly for the
\* Number tokens, with the stored integer, and fails with "It's not a number
\* token!" for Identifier, String, EOL and EOF; get_text is empty for EOL and
\* EOF, and for the Number of a digit run it is the run without its leading
\* zeros.
C12_TokenQueries ==
  /\ \A j \in 1..Len(appended) :
       /\ get_category(appended[j]) \in
            {"IDENTIFIER", "NUMBER", "STRING", "EOL", "EOF"}
       /\ get_number(appended[j]) =
            IF get_category(appended[j]) = "NUMBER"
            THEN [ok |-> TRUE, value |-> appended[j].number, err |-> ""]
            ELSE [ok |-> FALSE, value |-> 0, err |-> NOT_NUMBER_ERR_STR]
       /\ get_category(appended[j]) \in {"EOL", "EOF"} =>
            get_text(appended[j]) = <<>>
  /\ \A k \in 1..Pulled :
       (IsDigitRun(source[k]) /\ FitsI32(Content(source[k].line))) =>
         \E j \in TokensOfLine(k) :
           /\ get_category(appended[j]) = "NUMBER"
           /\ get_text(appended[j]) = StripZeros(Content(source[k].line))
           /\ get_number(appended[j]).value = DecimalValue(Content(source[k].line))

\* the digit run 007 and a line with a string literal were scanned and the
\* EOF was pushed
C12_Witness ==
  /\ Len(source) = 2
  /\ ~has_more
  /\ Content(source[1].line) = <<"0", "0", "7">>
  /\ \E j \in 1..Len(appended) :
       get_category(appended[j]) = "NUMBER" /\ get_text(appended[j]) = <<"7">>
  /\ \E j \in 1..Len(appended) : get_category(appended[j]) = "STRING"
  /\ \E j \in 1..Len(appended) : get_category(appended[j]) = "EOL"

\* ---------------------------------------------------------------------------
\* Properties of the zero-byte read
\* ---------------------------------------------------------------------------

EolCount(toks) == Cardinality({k \in 1..Len(toks) : IsEol(toks[k])})

\* read_line on a drained reader: one EOF token carrying the line counter is
\* appended, the counter and the reader stay, has_more falls
ZeroByteRead ==
  (has_more /\ reader = <<>>) =>
    /\ read_line(Lexer).err = ""
    /\ read_line(Lexer).lx =
         [Lexer EXCEPT !.has_more = FALSE,
                       !.token_queue = Append(token_queue, EofToken_new(line_number))]
    /\ line_number = LineOf(Len(source))

\* once exhausted, the last token pushed is the EOF of the number of lines read
ExhaustedAtLineCount ==
  ~has_more =>
    /\ reader = <<>>
    /\ line_number = LineOf(Len(source))
    /\ Last(appended) = EofToken_new(LineOf(Len(source)))
    /\ \A k \in 1..Len(appended) : appended[k].line_number <= line_number
    /\ EolCount(appended) <= line_number

\* the call that exhausts the lexer pushes one EOL for each line it pulls and
\* none for the zero-byte read, whose EOF token comes last
ExhaustingStep ==
  (has_more /\ ~has_more') =>
    /\ line_number' = line_number + Len(reader)
    /\ EolCount(appended') = EolCount(appended) + Len(reader)
    /\ Len(appended') > Len(appended)
    /\ Last(appended') = EofToken_new(line_number')
    /\ (Len(reader) = 0 =>
          /\ line_number' = line_number
          /\ appended' = Append(appended, EofToken_new(line_number)))

\* C13: when the line source yields zero bytes the EOF token appended carries
\* the line counter as it stands, which is the number of lines read so far (0
\* when no line was read, k after k lines); the line counter is not changed
\* and no EOL token is appended for that read.
C13_EofCarriesLineCounter ==
  /\ [](ZeroByteRead /\ ExhaustedAtLineCount)
  /\ [][ExhaustingStep]_vars

\* the test read_one_number: one unterminated line "100", then the zero-byte
\* read pushed the EOF of line 1 after the EOL of line 1
C13_Witness ==
  /\ Len(source) = 1
  /\ ~source[1].io_err
  /\ source[1].line = <<"1", "0", "0">>
  /\ ~has_more
  /\ line_number = 1
  /\ consumed = <<NumberToken_new(1, 100), EolToken_new(1), EofToken_new(1)>>

\* ---------------------------------------------------------------------------
\* Properties of the line numbering
\* ---------------------------------------------------------------------------

\* the tokens of toks, in order, that are not EOF and carry line l
RECURSIVE OfLine(_, _)
OfLine(toks, l) ==
  IF toks = <<>> THEN <<>>
  ELSE IF ~IsEof(Head(toks)) /\ Head(toks).line_number = l
    THEN <<Head(toks)>> \o OfLine(Tail(toks), l)
  ELSE OfLine(Tail(toks), l)

\* what the line of item k pushes when it is scanned under line number l
PushedOfLine(k, l) ==
  IF scan_line(source[k].line, 1, l, <<>>).err # ""
    THEN scan_line(source[k].line, 1, l, <<>>).toks
    ELSE Append(scan_line(source[k].line, 1, l, <<>>).toks, EolToken_new(l))

NonDecreasing(toks) ==
  \A j, k \in 1..Len(toks) : j < k => toks[j].line_number <= toks[k].line_number

LineNumbering ==
  /\ line_number = LineOf(Pulled)
  /\ \A k \in 1..Pulled :
       ~source[k].io_err =>
         /\ LineOf(k) \in 1..line_number
         /\ OfLine(appended, LineOf(k)) = PushedOfLine(k, LineOf(k))
         /\ \A j \in 1..Len(PushedOfLine(k, LineOf(k))) :
              PushedOfLine(k, LineOf(k))[j].line_number = LineOf(k)
  /\ \A j \in 1..Len(appended) :
       /\ appended[j].line_number \in 0..line_number
       /\ appended[j].line_number = 0 => IsEof(appended[j])
  /\ NonDecreasing(appended)
  /\ NonDecreasing(token_queue)
  /\ NonDecreasing(consumed)
  /\ \A j \in 1..Len(token_queue) : token_queue[j].line_number <= line_number

\* the line counter moves by one for each line the call reads, and only then
CounterStep ==
  /\ line_number' - line_number =
       Cardinality({k \in (Pulled + 1)..Pulled' : ~source[k].io_err})
  /\ Pulled' = Pulled => line_number' = line_number

\* C14: the line counter increases by exactly one per line read from the
\* source and never otherwise; the content tokens and the EOL of the k-th line
\* read carry line k (1-based); hence the line numbers of the tokens in queue
\* and read order never decrease and every queued token has a line number not
\* above the line counter.
C14_LineNumbering ==
  /\ []LineNumbering
  /\ [][CounterStep]_vars

\* two lines with content were read; a token of line 1 has been consumed and a
\* content token of line 2 waits in the queue
C14_Witness ==
  /\ line_number = 2
  /\ \E j \in 1..Len(consumed) :
       consumed[j].line_number = 1 /\ consumed[j].category = "IDENTIFIER"
  /\ \E j \in 1..Len(token_queue) :
       token_queue[j].line_number = 2 /\ token_queue[j].category = "NUMBER"

\* ---------------------------------------------------------------------------
\* Properties of the scan of one line
\* ---------------------------------------------------------------------------

Recognized == Digit \cup IdStart \cup Punct

CommentAt(line, q) == At(line, q) = "/" /\ At(line, q + 1) = "/"

\* the first position from p on that holds no white space
FirstNonSpace(line, p) ==
  CHOOSE q \in p..(Len(line) + 1) :
    /\ \A k \in p..(q - 1) : line[k] \in Space
    /\ At(line, q) \notin Space

\* the end (exclusive) of the longest run of class characters that starts at q
LongestRun(line, q, class) ==
  CHOOSE e \in q..(Len(line) + 1) :
    /\ \A k \in q..(e - 1) : line[k] \in class
    /\ At(line, e) \notin class

\* where the text of token t ends (exclusive) when it starts at q; 0 when t
\* is not the token of the text at q or when a comment starts at q
Extent(line, q, t) ==
  IF q > Len(line) \/ CommentAt(line, q) THEN 0
  ELSE IF t.category = "NUMBER" THEN
    IF line[q] \in Digit THEN LongestRun(line, q, Digit) ELSE 0
  ELSE IF t.category = "STRING" THEN
    IF /\ line[q] = "\""
       /\ At(line, q + Len(t.text) + 1) = "\""
       /\ SubSeq(line, q + 1, q + Len(t.text)) = t.text
    THEN q + Len(t.text) + 2 ELSE 0
  ELSE IF t.category = "IDENTIFIER" THEN
    IF /\ t.text # <<>>
       /\ q + Len(t.text) - 1 <= Len(line)
       /\ SubSeq(line, q, q + Len(t.text) - 1) = t.text
    THEN q + Len(t.text) ELSE 0
  ELSE 0

\* where the tokens start when they lie on the line from p on, left to
\* right, with white space only between them; <<0>> closes the sequence when
\* they do not
RECURSIVE Starts(_, _, _)
Starts(line, p, toks) ==
  IF toks = <<>> THEN <<>>
  ELSE IF Extent(line, FirstNonSpace(line, p), Head(toks)) = 0 THEN <<0>>
  ELSE <<FirstNonSpace(line, p)>>
       \o Starts(line, Extent(line, FirstNonSpace(line, p), Head(toks)), Tail(toks))

\* the position after the last of the tokens, 0 when they do not lie on the line
RECURSIVE StopAt(_, _, _)
StopAt(line, p, toks) ==
  IF toks = <<>> THEN p
  ELSE IF Extent(line, FirstNonSpace(line, p), Head(toks)) = 0 THEN 0
  ELSE StopAt(line, Extent(line, FirstNonSpace(line, p), Head(toks)), Tail(toks))

\* the tokens of toks that are neither EOL nor EOF
RECURSIVE ContentTokens(_)
ContentTokens(toks) ==
  IF toks = <<>> THEN <<>>
  ELSE IF IsEol(Head(toks)) \/ IsEof(Head(toks)) THEN ContentTokens(Tail(toks))
  ELSE <<Head(toks)>> \o ContentTokens(Tail(toks))

\* the content tokens pushed for item k
ContentOfItem(k) == ContentTokens(OfLine(appended, LineOf(k)))

\* scanning item k stopped at the end of the line, at a comment or at a
\* character no alternative matches
StopsAt(line, stop) ==
  /\ stop # 0
  /\ \/ FirstNonSpace(line, stop) > Len(line)
     \/ CommentAt(line, FirstNonSpace(line, stop))
     \/ line[FirstNonSpace(line, stop)] \notin Recognized

ClosingQuoteAfter(line, q) == \E k \in (q + 1)..Len(line) : line[k] = "\""

\* token t, which starts at q, is the token the text at q calls for
Classified(line, q, t) ==
  IF line[q] \in Digit THEN
    /\ t.category = "NUMBER"
    /\ t.number = DecimalValue(SubSeq(line, q, LongestRun(line, q, Digit) - 1))
  ELSE IF line[q] = "\"" /\ ClosingQuoteAfter(line, q) THEN
    /\ t.category = "STRING"
    /\ t.text = SubSeq(line, q + 1, Extent(line, q, t) - 2)
    /\ \A k \in 1..Len(t.text) : t.text[k] = "\"" => k > 1 /\ t.text[k - 1] = "\\"
  ELSE IF line[q] \in IdStart THEN
    /\ t.category = "IDENTIFIER"
    /\ t.text = SubSeq(line, q, LongestRun(line, q, IdPart) - 1)
  ELSE IF <<line[q], At(line, q + 1)>> \in TwoCharOps THEN
    /\ t.category = "IDENTIFIER"
    /\ t.text = <<line[q], line[q + 1]>>
  ELSE
    /\ line[q] \in Punct
    /\ t.category = "IDENTIFIER"
    /\ t.text = <<line[q]>>

\* the content tokens of lines the tests and the pattern's escapes call for
Str(text) == [category |-> "STRING", line_number |-> 1, text |-> text, number |-> 0]

ExampleTokens(c) ==
  IF c = <<"i", " ", "=", " ", "1">>
    THEN <<IdToken_new(1, <<"i">>), IdToken_new(1, <<"=">>), NumberToken_new(1, 1)>>
  ELSE IF c = <<"\"", "h", "i", "\"">> THEN <<Str(<<"h", "i">>)>>
  ELSE IF c = <<"\"", "\\", "\"", "\"">> THEN <<Str(<<"\\", "\"">>)>>
  ELSE IF c = <<"\"", "a", "\\", "n", "b", "\"">>
    THEN <<Str(<<"a", "\\", "n", "b">>)>>
  ELSE IF c = <<"\"", "\\", "\\", "\"", "a", "\"">>
    THEN <<Str(<<"\\", "\\">>), IdToken_new(1, <<"a">>), IdToken_new(1, <<"\"">>)>>
  ELSE IF c = <<"a", "<", "=", "b", "1">>
    THEN <<IdToken_new(1, <<"a">>), IdToken_new(1, <<"<", "=">>),
           IdToken_new(1, <<"b", "1">>)>>
  ELSE IF c = <<"x", "&", "&", "y", "|", "|", "z">>
    THEN <<IdToken_new(1, <<"x">>), IdToken_new(1, <<"&", "&">>),
           IdToken_new(1, <<"y">>), IdToken_new(1, <<"|", "|">>),
           IdToken_new(1, <<"z">>)>>
  ELSE IF c = <<"=", "=", "=", ">", "=", "<">>
    THEN <<IdToken_new(1, <<"=", "=">>), IdToken_new(1, <<"=">>),
           IdToken_new(1, <<">", "=">>), IdToken_new(1, <<"<">>)>>
  ELSE IF c = <<"0", "1", "0", "a", "_", "1">>
    THEN <<NumberToken_new(1, 10), IdToken_new(1, <<"a", "_", "1">>)>>
  ELSE <<>>

ParseFails(k) == ~source[k].io_err /\ ItemFails(source[k])

\* the tokens lie on the line up to a digit run that does not fit
StopsAtOverflow(line, stop) ==
  /\ stop # 0
  /\ At(line, FirstNonSpace(line, stop)) \in Digit
  /\ ~FitsI32(SubSeq(line, FirstNonSpace(line, stop),
                     LongestRun(line, FirstNonSpace(line, stop), Digit) - 1))

\* the line of a failed parse stays half scanned: its counter is taken, its
\* tokens before the digit run are pushed, nothing of what follows the run and
\* no EOL; the tokens of the next line come right after them
HalfScannedLines ==
  \A k \in 1..Pulled :
    ParseFails(k) =>
      /\ LineOf(k) \in 1..line_number
      /\ EolsOfLine(LineOf(k)) = {}
      /\ OfLine(appended, LineOf(k)) = scan_line(source[k].line, 1, LineOf(k), <<>>).toks
      /\ StopsAtOverflow(source[k].line,
                         StopAt(source[k].line, 1, OfLine(appended, LineOf(k))))
      /\ consumed \o token_queue = appended
      /\ NonDecreasing(appended)
      /\ (k = Pulled /\ EndedOnItem) => has_more
      /\ (k < Pulled /\ ~source[k + 1].io_err) =>
           OfLine(appended, LineOf(k) + 1) = PushedOfLine(k + 1, LineOf(k) + 1)

\* the call that meets the digit run fails and leaves the lexer streaming,
\* with the counter advanced and the tokens before the run at the queue's end
FailingCall ==
  (~ret'.ok /\ ret'.err = PARSE_ERR_STR) =>
    /\ has_more /\ has_more'
    /\ Pulled' > Pulled
    /\ ~source[Pulled'].io_err /\ ItemFails(source[Pulled'])
    /\ line_number' = LineOf(Pulled')
    /\ line_number' > line_number
    /\ consumed' = consumed
    /\ IsPrefix(token_queue, token_queue')
    /\ IsPrefix(appended, appended')
    /\ Len(appended') - Len(appended) = Len(token_queue') - Len(token_queue)
    /\ \A j \in 1..Len(OfLine(appended', line_number')) :
         token_queue'[Len(token_queue') - Len(OfLine(appended', line_number')) + j]
           = OfLine(appended', line_number')[j]

\* the read() after the failed call returns the first token left in the queue,
\* or goes on with the next line when none is left
ReadAfterFailure ==
  (~ret.ok /\ ret.err = PARSE_ERR_STR /\ ret'.op = "read") =>
    IF token_queue # <<>>
      THEN /\ ret' = Ok("read", 0, Head(token_queue))
           /\ token_queue' = Tail(token_queue)
           /\ UNCHANGED <<reader, line_number, has_more>>
      ELSE \/ Pulled' > Pulled
           \/ reader = <<>> /\ ret' = Ok("read", 0, EofToken_new(line_number))

\* C17: a numeric-parse failure in the middle of a line does not roll the
\* tokenizer back: after the failing read() or peek() the tokens scanned on
\* the line before the digit run stay queued in order, the line counter has
\* advanced for the line, no EOL is ever pushed for it and the rest of the
\* line is lost; the lexer stays streaming and later read() calls return the
\* tokens left and then go on with the next line.
C17_ParseFailureKeepsTokens ==
  /\ []HalfScannedLines
  /\ [][FailingCall /\ ReadAfterFailure]_vars

\* x 9999999999 y failed on the digit run; the reads after it returned x of
\* line 1 and then the number and the EOL of line 2
C17_Witness ==
  /\ Len(source) = 2
  /\ Content(source[1].line) =
       <<"x", " ", "9", "9", "9", "9", "9", "9", "9", "9", "9", "9", " ", "y">>
  /\ consumed = <<IdToken_new(1, <<"x">>), NumberToken_new(2, 100), EolToken_new(2)>>
  /\ has_more

\* ---------------------------------------------------------------------------
\* Properties of the fill loop
\* ---------------------------------------------------------------------------

\* a read of the line source that completes without error pushes a token
ReadLinePushes ==
  (has_more /\ read_line(Lexer).err = "") =>
    /\ Len(read_line(Lexer).lx.token_queue) > Len(token_queue)
    /\ IsPrefix(token_queue, read_line(Lexer).lx.token_queue)
    /\ Last(read_line(Lexer).lx.token_queue).category \in {"EOL", "EOF"}

\* a fill that reports success leaves a queue with more than i tokens
FillSuccessFills ==
  \A i \in 0..MaxPeek :
    (fill_queue(Lexer, i).err = "" /\ fill_queue(Lexer, i).res) =>
      Len(fill_queue(Lexer, i).lx.token_queue) > i

\* no call returns the error of the pop_front fallback
NoPopError == (ret.op # "none" /\ ~ret.ok) => ret.err # POP_ERR_STR

\* a call reads the line source at most i + 1 times (read: once)
BoundedPulls ==
  /\ pulls' \in 0..(ret'.i + 1)
  /\ Pulled' - Pulled <= pulls'
  /\ ret'.op = "read" => ret'.i = 0 /\ Pulled' - Pulled <= 1
  /\ ret'.op = "peek" => Pulled' - Pulled <= ret'.i + 1

\* C18: every read of the line source that completes without error pushes at
\* least one token (an EOL or the EOF), so the fill loop makes progress:
\* read() reads at most one line per call, peek(i) at most i+1, both end, and
\* when the fill reports success the queue is not empty, so read() never
\* returns the empty-string error of its pop_front fallback.
C18_FillMakesProgress ==
  /\ [](ReadLinePushes /\ FillSuccessFills /\ NoPopError)
  /\ [][BoundedPulls]_vars

\* a peek(2) on an empty queue read two lines without content and the end of
\* the source: three reads, one token each
C18_Witness ==
  /\ ret.op = "peek" /\ ret.i = 2 /\ ret.ok
  /\ pulls = 3
  /\ Pulled = 2
  /\ appended = <<EolToken_new(1), EolToken_new(2), EofToken_new(2)>>
  /\ consumed = <<>>

\* ---------------------------------------------------------------------------
\* Properties of the lookahead
\* ---------------------------------------------------------------------------

\* the tokens in the queue when the fill of the call ended
FilledQueueLen == Len(appended') - Len(consumed)

\* the tokens the last read of the call pushed
LastPushLen ==
  IF has_more /\ ~has_more' THEN 1
  ELSE Len(PushedOfLine(Pulled', LineOf(Pulled')))

\* a call whose token is already queued touches neither the line source nor
\* the counter nor the flag
NoPullWhenQueued ==
  Len(token_queue) > ret'.i =>
    /\ pulls' = 0
    /\ ret'.ok
    /\ UNCHANGED <<reader, line_number, has_more, appended>>
    /\ ret'.op = "peek" => UNCHANGED token_queue
    /\ ret'.op = "read" => token_queue' = Tail(token_queue)

\* a call that reads lines stops with the first read that makes the queue
\* long enough
StopsWhenFilled ==
  (ret'.ok /\ pulls' > 0) =>
    /\ Len(token_queue) <= ret'.i
    /\ FilledQueueLen > ret'.i
    /\ FilledQueueLen - LastPushLen <= ret'.i

\* C19: the lookahead is lazy: read() reads no line when the queue is not
\* empty, peek(i) reads no line when the queue holds more than i tokens and
\* stops reading as soon as it does; in those cases the call leaves the line
\* counter, the exhaustion flag and the line source as they were.
C19_LazyLookahead == [][NoPullWhenQueued /\ StopsWhenFilled]_vars

\* a peek(1) on a queue of three tokens, with a line still unread
C19_Witness ==
  /\ ret.op = "peek" /\ ret.i = 1 /\ ret.ok
  /\ pulls = 0
  /\ Len(token_queue) = 3
  /\ reader # <<>>
  /\ has_more

====
